---- MODULE Spec2Model ----
(***************************************************************************)
(* Version-history layout of GitBranchView                                 *)
(* (src/src/components/GitBranchView.tsx): the chronological sort of the   *)
(* version records, the roots and the parent -> children map, and the      *)
(* depth-first assignPosition walk that gives every reachable version a    *)
(* (lane, row).  The recursion of assignPosition is modelled by an         *)
(* explicit call stack, one action per call and one per return.            *)
(***************************************************************************)
EXTENDS Integers, Sequences, FiniteSets, TLC

(* ---------------------------- bounds ----------------------------------- *)
\* number of distinct version ids a batch of the main specification draws from
NumIds == 3
\* created_at values are 1..MaxTime (fewer values than ids: ties happen)
MaxTime == 2
\* larger batches, whose records all carry the same created_at
WideIds == 4
\* ids of the batches that are laid out one after the other (same created_at)
RerunIds == 2
\* ids and created_at values of the batches that are laid out in two orders
PermIds == 2
PermMaxTime == 2
\* number of layout computations in one behaviour of SpecRerun
MaxRuns == 3
\* ids of the batches whose computation is followed to its end (same created_at)
FairIds == 3
\* ids of the batches in which ids repeat; such a batch has up to DupIds + 1 records
DupIds == 2
\* ids of the batches whose records may carry a version_number, and its largest value
OrdIds == 2
MaxOrdinal == 2
\* ids of the batches of two components whose computations are interleaved
ConcIds == 2
OtherIds == 1
\* ids of the larger batches in which every parent precedes its children
ForestIds == 5
\* depth of the call stack at which a further call throws RangeError; more
\* than any walk over records with unique ids needs
MaxDepth == 6

(* ---------------------------- values ----------------------------------- *)
IdSeq == <<"a", "b", "c", "d", "e", "f">>
\* a parent_version_id that is absent (undefined, null or ""): falsy in JS
NoParent == ""
\* a parent_version_id naming a version that is in no batch
Missing == "missing"
\* version_number absent
Absent == -1
\* the value of layout when the useMemo callback returns null (line 40)
Null == [null |-> TRUE]
\* nothing rendered yet
NoView == [kind |-> "none"]
\* no second component is mounted
NoOther == [phase |-> "none"]

VARIABLES
    versions,        \* props.versions, the input array
    sortedVersions,  \* useMemo #1
    roots,           \* const roots
    childrenMap,     \* const childrenMap
    positions,       \* const positions
    laneNextRow,     \* const laneNextRow
    laneUsage,       \* const laneUsage
    stack,           \* the active assignPosition calls, innermost last
    rootIdx,         \* index of roots.forEach
    layout,          \* useMemo #2: Null or [positions, maxLane, maxRow]
    pc,              \* "render" | "layout" | "done" | "shown" | "failed"
    order,           \* history: the ids in the order assignPosition placed them
    runs,            \* history: number of layout computations started
    firstVersions,   \* history: the batch of the first computation
    prevVersions,    \* history: the batch of the computation before this one
    firstLayout,     \* history: the value layout got in the first computation
    view,            \* what the render returned, or the error it threw
    other            \* a second mounted component: its phase and its state

vars == <<versions, sortedVersions, roots, childrenMap, positions, laneNextRow,
          laneUsage, stack, rootIdx, layout, pc, order, runs, firstVersions,
          prevVersions, firstLayout, view, other>>

(* ---------------------------- helpers ---------------------------------- *)
EmptyMap == [k \in {} |-> 0]

Put(f, k, v) == [x \in (DOMAIN f) \cup {k} |-> IF x = k THEN v ELSE f[x]]

Range(s) == {s[i] : i \in DOMAIN s}

Max(S) == CHOOSE m \in S : \A x \in S : x <= m

\* the JS test !value for a string, and value || ... for a number
FalsyId(p) == p = NoParent
FalsyNum(n) == n = Absent \/ n = 0

(* ---------------------------- input batches ---------------------------- *)
FirstIds(n) == {IdSeq[i] : i \in 1..n}

Record(id, parent, t, num) ==
    [version_id |-> id, parent_version_id |-> parent, created_at |-> t,
     version_number |-> num]

\* the batch of len records whose i-th record carries the i-th id
Batch(len, par, tm) == [i \in 1..len |-> Record(IdSeq[i], par[i], tm[i], Absent)]

ParentIds(n) == FirstIds(n) \cup {NoParent, Missing}

(* ---------------------------- useMemo #1 ------------------------------- *)
\* the comparator of line 30
Compare(a, b) == a.created_at - b.created_at

RECURSIVE InsertSortedBeforeTies(_, _)
\* an insertion that also passes the elements that compare equal
InsertSortedBeforeTies(s, v) ==
    IF s = <<>> THEN <<v>>
    ELSE IF Compare(s[Len(s)], v) >= 0
         THEN Append(InsertSortedBeforeTies(SubSeq(s, 1, Len(s) - 1), v), s[Len(s)])
         ELSE Append(s, v)

RECURSIVE InsertSorted(_, _)
\* insert v behind every element that does not compare greater: a stable sort
InsertSorted(s, v) ==
    IF s = <<>> THEN <<v>>
    ELSE IF Compare(s[Len(s)], v) > 0
         THEN Append(InsertSorted(SubSeq(s, 1, Len(s) - 1), v), s[Len(s)])
         ELSE Append(s, v)

\* a normalizer that keeps the input order
SortKeepsInputOrder(vs) == vs

RECURSIVE SortByCreatedAt(_)
SortByCreatedAt(vs) ==
    IF vs = <<>> THEN <<>>
    ELSE InsertSorted(SortByCreatedAt(SubSeq(vs, 1, Len(vs) - 1)), vs[Len(vs)])

NumberVersions(vs) ==
    [idx \in 1..Len(vs) |->
        [vs[idx] EXCEPT !.version_number =
            IF FalsyNum(vs[idx].version_number) THEN idx
            ELSE vs[idx].version_number]]

SortedVersions(vs) == NumberVersions(SortByCreatedAt(vs))

(* ---------------------------- forest ----------------------------------- *)
HasId(sv, id) == \E i \in 1..Len(sv) : sv[i].version_id = id

\* a forest whose roots are the parentless records only
IsRootParentless(sv, v) == FalsyId(v.parent_version_id)

\* a filter that looks for the parent among the other records only
IsRootIgnoringSelf(sv, v) ==
    \/ FalsyId(v.parent_version_id)
    \/ ~\E i \in 1..Len(sv) : sv[i] # v /\ sv[i].version_id = v.parent_version_id

\* the filter of lines 47-49
IsRoot(sv, v) == FalsyId(v.parent_version_id) \/ ~HasId(sv, v.parent_version_id)

Roots(sv) == SelectSeq(sv, LAMBDA v : IsRoot(sv, v))

RECURSIVE ChildrenMapLatestFirst(_)
\* a map whose lists grow at the front
ChildrenMapLatestFirst(sv) ==
    IF sv = <<>> THEN EmptyMap
    ELSE LET m == ChildrenMapLatestFirst(SubSeq(sv, 1, Len(sv) - 1))
             v == sv[Len(sv)]
             p == v.parent_version_id
         IN  IF FalsyId(p) THEN m
             ELSE Put(m, p, <<v.version_id>> \o (IF p \in DOMAIN m THEN m[p] ELSE <<>>))

RECURSIVE ChildrenMap(_)
\* the forEach of lines 52-57, over the records in sorted order
ChildrenMap(sv) ==
    IF sv = <<>> THEN EmptyMap
    ELSE LET m == ChildrenMap(SubSeq(sv, 1, Len(sv) - 1))
             v == sv[Len(sv)]
             p == v.parent_version_id
         IN  IF FalsyId(p) THEN m
             ELSE Put(m, p, Append(IF p \in DOMAIN m THEN m[p] ELSE <<>>,
                                   v.version_id))

\* a walk that descends into the first child only
ChildrenFirstOnly(vId) ==
    IF vId \in DOMAIN childrenMap THEN <<childrenMap[vId][1]>> ELSE <<>>

\* childrenMap[vId] || []
Children(vId) == IF vId \in DOMAIN childrenMap THEN childrenMap[vId] ELSE <<>>

(* ---------------------------- assignPosition --------------------------- *)
Unit == 80

RowUsed(usage, lane, row) == lane \in DOMAIN usage /\ row \in Range(usage[lane])

\* a walk that takes the requested row without looking at the lane
FreeRowUnchecked(usage, lane, row) == row

RECURSIVE FreeRow(_, _, _)
\* the while loop of lines 65-67
FreeRow(usage, lane, row) ==
    IF RowUsed(usage, lane, row) THEN FreeRow(usage, lane, row + 1) ELSE row

NodePosition(lane, row) == [x |-> lane * Unit, y |-> row * Unit, lane |-> lane, row |-> row]

\* a walk that opens a lane for the first child too
NextLaneAlwaysNew(idx, lane, lnr) == Cardinality(DOMAIN lnr)

\* a walk with one lane for all the branches
NextLaneOneBranchLane(idx, lane, lnr) == IF idx = 0 THEN lane ELSE 1

\* line 82
NextLane(idx, lane, lnr) == IF idx = 0 THEN lane ELSE Cardinality(DOMAIN lnr)

\* a walk whose children ask for the row of their parent, or skip a row
ChildStartRowSame(row) == row
ChildStartRowSkip(row) == row + 2

\* line 84: the row a child asks for
ChildStartRow(row) == row + 1

\* a walk that starts every root in lane 0
RootLaneZero(idx) == 0

\* line 89: the lane and the row a root asks for
RootLane(idx) == idx
RootStartRow == 0

\* lines 62-77 of a call assignPosition(vId, lane, startRow), and the frame
\* of the call (its forEach has handled idx children so far)
Place(vId, lane, startRow, callers) ==
    LET row == FreeRow(laneUsage, lane, startRow)
    IN  /\ positions' = Put(positions, vId, NodePosition(lane, row))
        /\ laneUsage' = Put(laneUsage, lane,
                            Append(IF lane \in DOMAIN laneUsage
                                   THEN laneUsage[lane] ELSE <<>>, row))
        /\ stack' = Append(callers, [vId |-> vId, lane |-> lane, row |-> row, idx |-> 0])
        /\ order' = Append(order, vId)

Top == stack[Len(stack)]

(* ---------------------------- actions ---------------------------------- *)
\* lines 42-44 and 59: the maps a computation starts with
NewPositions == EmptyMap
\* a counter map without the entry of lane 0
LaneNextRowEmpty == EmptyMap

NewLaneNextRow == (0 :> 0)
\* an occupancy map that outlives the computation
KeptLaneUsage == laneUsage

NewLaneUsage == EmptyMap

\* a callback that lays out the empty array like any other
ReturnsNullNever(sv) == FALSE

\* line 40
ReturnsNull(sv) == Len(sv) = 0

\* one render up to the first assignPosition call: lines 28-59
Begin ==
    /\ pc = "render"
    /\ sortedVersions' = SortedVersions(versions)
    /\ IF ReturnsNull(sortedVersions')
       THEN /\ layout' = Null
            /\ pc' = "done"
            /\ firstLayout' = IF runs = 1 THEN layout' ELSE firstLayout
            /\ UNCHANGED <<roots, childrenMap, positions, laneNextRow, laneUsage>>
       ELSE /\ positions' = NewPositions
            /\ laneNextRow' = NewLaneNextRow
            /\ childrenMap' = ChildrenMap(sortedVersions')
            /\ roots' = Roots(sortedVersions')
            /\ laneUsage' = NewLaneUsage
            /\ pc' = "layout"
            /\ UNCHANGED <<layout, firstLayout>>
    /\ rootIdx' = 0
    /\ stack' = <<>>
    /\ order' = <<>>
    /\ UNCHANGED <<versions, runs, firstVersions, prevVersions, other, view>>

\* one iteration of roots.forEach (line 89) up to the callee's own forEach
CallRoot ==
    /\ pc = "layout"
    /\ stack = <<>>
    /\ rootIdx < Len(roots)
    /\ Place(roots[rootIdx + 1].version_id, RootLane(rootIdx), RootStartRow, stack)
    /\ rootIdx' = rootIdx + 1
    /\ UNCHANGED <<versions, sortedVersions, roots, childrenMap, laneNextRow,
                   layout, pc, runs, firstVersions, prevVersions, other, firstLayout, view>>

\* one iteration of children.forEach (lines 80-85) up to the callee's forEach
CallChild ==
    /\ pc = "layout"
    /\ stack # <<>>
    /\ Top.idx < Len(Children(Top.vId))
    /\ Len(stack) < MaxDepth
    /\ LET childId == Children(Top.vId)[Top.idx + 1]
           nextLane == NextLane(Top.idx, Top.lane, laneNextRow)
           lnr == IF Top.idx > 0
                  THEN Put(laneNextRow, nextLane, Top.row + 1)
                  ELSE laneNextRow
           callers == [stack EXCEPT ![Len(stack)].idx = Top.idx + 1]
       IN  /\ laneNextRow' = lnr
           /\ Place(childId, nextLane, ChildStartRow(Top.row), callers)
    /\ UNCHANGED <<versions, sortedVersions, roots, childrenMap, rootIdx,
                   layout, pc, runs, firstVersions, prevVersions, other, firstLayout, view>>

\* children.forEach is exhausted: the call returns
Return ==
    /\ pc = "layout"
    /\ stack # <<>>
    /\ Top.idx = Len(Children(Top.vId))
    /\ stack' = SubSeq(stack, 1, Len(stack) - 1)
    /\ UNCHANGED <<versions, sortedVersions, roots, childrenMap, positions,
                   laneNextRow, laneUsage, rootIdx, layout, pc, order, runs,
                   firstVersions, prevVersions, other, firstLayout, view>>

\* a summary that counts the branch lanes handed out instead
MaxLaneFromCounter(pos) == Cardinality(DOMAIN laneNextRow) - 1

\* lines 93-94
MaxLane(pos) == Max({pos[k].lane : k \in DOMAIN pos} \cup {0})
MaxRow(pos) == Max({pos[k].row : k \in DOMAIN pos} \cup {0})

\* lines 93-96
Finish ==
    /\ pc = "layout"
    /\ stack = <<>>
    /\ rootIdx = Len(roots)
    /\ layout' = [positions |-> positions,
                  maxLane |-> MaxLane(positions),
                  maxRow |-> MaxRow(positions)]
    /\ firstLayout' = IF runs = 1 THEN layout' ELSE firstLayout
    /\ pc' = "done"
    /\ UNCHANGED <<versions, sortedVersions, roots, childrenMap, positions,
                   laneNextRow, laneUsage, stack, rootIdx, order, runs, firstVersions,
                   prevVersions, other, view>>

(* ---------------------------- the render ------------------------------- *)
\* lines 108-110: the size of the drawing surface
LaneCount(l) == l.maxLane + 1
RowCount(l) == l.maxRow + 1

\* lines 142-177: the connection of sv[i] to its parent, if one is drawn
HasEdge(pos, v) == ~FalsyId(v.parent_version_id) /\ v.parent_version_id \in DOMAIN pos

\* a renderer that joins every child to its parent by a straight segment
EdgeAlwaysLine(pos, v) ==
    [kind |-> "line", id |-> v.version_id,
     x1 |-> pos[v.parent_version_id].x + 40,
     y1 |-> pos[v.parent_version_id].y + 40,
     x2 |-> pos[v.version_id].x + 40, y2 |-> pos[v.version_id].y + 40]

Edge(pos, v) ==
    LET start == pos[v.parent_version_id]
        end == pos[v.version_id]
    IN  IF start.lane = end.lane
        THEN [kind |-> "line", id |-> v.version_id,
              x1 |-> start.x + 40, y1 |-> start.y + 40,
              x2 |-> end.x + 40, y2 |-> end.y + 40]
        ELSE [kind |-> "path", id |-> v.version_id,
              x1 |-> start.x + 40, y1 |-> start.y + 40,
              cpX |-> end.x + 40, cpY |-> start.y + 40,
              x2 |-> end.x + 40, y2 |-> end.y + 40]

Edges(pos, sv) ==
    LET drawn == SelectSeq(sv, LAMBDA v : HasEdge(pos, v))
    IN  [i \in 1..Len(drawn) |-> Edge(pos, drawn[i])]

\* lines 181-193: the node of sv[i]
Node(pos, v) ==
    [id |-> v.version_id, left |-> pos[v.version_id].x + 24,
     top |-> pos[v.version_id].y + 24, label |-> v.version_number]

\* line 99
ShowsNoHistory(l, sv) == l = Null \/ Len(sv) = 0

\* lines 99-193: what the component returns; reading pos.x of a version that
\* has no position (lines 182, 191) throws TypeError
View(l, sv) ==
    IF ShowsNoHistory(l, sv) THEN [kind |-> "empty"]
    ELSE IF \E i \in 1..Len(sv) : sv[i].version_id \notin DOMAIN l.positions
         THEN [kind |-> "error", name |-> "TypeError"]
         ELSE [kind |-> "graph",
               width |-> LaneCount(l) * Unit + 100,
               height |-> RowCount(l) * Unit + 100,
               edges |-> Edges(l.positions, sv),
               nodes |-> [i \in 1..Len(sv) |-> Node(l.positions, sv[i])]]

\* the rest of the render, after both useMemo callbacks
Render ==
    /\ pc = "done"
    /\ view' = View(layout, sortedVersions)
    /\ pc' = IF view'.kind = "error" THEN "failed" ELSE "shown"
    /\ UNCHANGED <<versions, sortedVersions, roots, childrenMap, positions,
                   laneNextRow, laneUsage, stack, rootIdx, layout, order, runs,
                   firstVersions, prevVersions, other, firstLayout>>

InitWith(batch) ==
    /\ versions = batch
    /\ sortedVersions = <<>>
    /\ roots = <<>>
    /\ childrenMap = EmptyMap
    /\ positions = EmptyMap
    /\ laneNextRow = EmptyMap
    /\ laneUsage = EmptyMap
    /\ stack = <<>>
    /\ rootIdx = 0
    /\ layout = Null
    /\ pc = "render"
    /\ order = <<>>
    /\ runs = 1
    /\ firstVersions = batch
    /\ prevVersions = <<>>
    /\ firstLayout = Null
    /\ view = NoView
    /\ other = NoOther

\* the component is mounted with some batch of at most n records
InitBatch(n, maxTime) ==
    \E len \in 0..n : \E par \in [1..len -> ParentIds(n)] : \E tm \in [1..len -> 1..maxTime] :
        InitWith(Batch(len, par, tm))

\* the same, all records carrying one created_at
InitTied(n) ==
    \E len \in 0..n : \E par \in [1..len -> ParentIds(n)] :
        InitWith(Batch(len, par, [i \in 1..len |-> 1]))

Init == InitBatch(NumIds, MaxTime) \/ InitTied(WideIds)

Next == Begin \/ CallRoot \/ CallChild \/ Return \/ Finish \/ Render

Spec == Init /\ [][Next]_vars

\* the render is one synchronous run of the JS thread: it is never left
\* half-way while a step of it can be taken
InitFair == InitTied(FairIds)

SpecFair == InitFair /\ [][Next]_vars /\ WF_vars(Next)

(* ---------------------------- several computations --------------------- *)
\* the component is rendered again with another versions array: both useMemo
\* callbacks run again (their dependency changed)
Rerender(batch) ==
    /\ pc = "shown"
    /\ runs < MaxRuns
    /\ versions' = batch
    /\ runs' = runs + 1
    /\ prevVersions' = versions
    /\ pc' = "render"
    /\ UNCHANGED <<sortedVersions, roots, childrenMap, positions, laneNextRow,
                   laneUsage, stack, rootIdx, layout, order, firstVersions,
                   firstLayout, view, other>>

\* any batch follows the first one ...
RerenderOther ==
    /\ runs = 1
    /\ \E len \in 0..RerunIds : \E par \in [1..len -> ParentIds(RerunIds)] :
          Rerender(Batch(len, par, [i \in 1..len |-> 1]))

\* ... and the first batch is laid out once more after it
RerenderFirst ==
    /\ runs > 1
    /\ Rerender(firstVersions)

InitRerun == InitTied(RerunIds)

NextRerun == Next \/ RerenderOther \/ RerenderFirst

SpecRerun == InitRerun /\ [][NextRerun]_vars

Perms(n) == {f \in [1..n -> 1..n] : \A i \in 1..n : \A j \in 1..n : f[i] = f[j] => i = j}

\* the same records arrive in another array order
RerenderPermuted ==
    /\ runs = 1
    /\ \E f \in Perms(Len(versions)) :
          Rerender([i \in 1..Len(versions) |-> versions[f[i]]])

InitPerm == InitBatch(PermIds, PermMaxTime)

NextPerm == Next \/ RerenderPermuted

SpecPerm == InitPerm /\ [][NextPerm]_vars

\* the engine gives up on a recursion that does not end: the call of line 84
\* throws a RangeError, which leaves the useMemo callback and the render
Overflow ==
    /\ pc = "layout"
    /\ stack # <<>>
    /\ Top.idx < Len(Children(Top.vId))
    /\ Len(stack) >= MaxDepth
    /\ view' = [kind |-> "error", name |-> "RangeError"]
    /\ pc' = "failed"
    /\ UNCHANGED <<versions, sortedVersions, roots, childrenMap, positions,
                   laneNextRow, laneUsage, stack, rootIdx, layout, order, runs,
                   firstVersions, prevVersions, other, firstLayout>>

\* batches whose records draw their ids freely, so that ids may repeat
InitDup ==
    \E len \in 0..(DupIds + 1) : \E ids \in [1..len -> FirstIds(DupIds)] :
        \E par \in [1..len -> ParentIds(DupIds)] :
            InitWith([i \in 1..len |-> Record(ids[i], par[i], 1, Absent)])

NextDup == Next \/ Overflow

SpecDup == InitDup /\ [][NextDup]_vars

\* batches whose records carry a version_number of their own, or none
InitOrd ==
    \E len \in 0..OrdIds : \E par \in [1..len -> ParentIds(OrdIds)] :
        \E num \in [1..len -> {Absent} \cup 0..MaxOrdinal] :
            InitWith([i \in 1..len |-> Record(IdSeq[i], par[i], 1, num[i])])

SpecOrd == InitOrd /\ [][Next]_vars

\* larger batches without a parent cycle: the parent of a record, if it is in
\* the batch, is an earlier record of the array (same created_at)
InitForest ==
    \E len \in 0..ForestIds :
        \E par \in [1..len -> ParentIds(ForestIds)] :
            /\ \A i \in 1..len : par[i] \in FirstIds(i - 1) \cup {NoParent, Missing}
            /\ InitWith(Batch(len, par, [i \in 1..len |-> 1]))

SpecForest == InitForest /\ [][Next]_vars

(* ---------------------------- two components --------------------------- *)
\* what one mounted component owns: its props, the values of its two useMemo
\* callbacks, and the maps and calls of its layout computation (lines 42-44,
\* 59: all created inside the callback)
ThisComponent ==
    [versions |-> versions, sortedVersions |-> sortedVersions, roots |-> roots,
     childrenMap |-> childrenMap, positions |-> positions,
     laneNextRow |-> laneNextRow, laneUsage |-> laneUsage, stack |-> stack,
     rootIdx |-> rootIdx, layout |-> layout, pc |-> pc, order |-> order,
     view |-> view]

\* a component mounted with a batch, before its first render
Mounted(batch) ==
    [versions |-> batch, sortedVersions |-> <<>>, roots |-> <<>>,
     childrenMap |-> EmptyMap, positions |-> EmptyMap, laneNextRow |-> EmptyMap,
     laneUsage |-> EmptyMap, stack |-> <<>>, rootIdx |-> 0, layout |-> Null,
     pc |-> "render", order |-> <<>>, view |-> NoView]

\* an occupancy map at module level, which every component would see
SharedLaneUsage(c) == laneUsage

\* line 59: laneUsage belongs to the computation that created it
OwnLaneUsage(c) == c.laneUsage

\* the steps that follow are those of component c
Resume(c) ==
    /\ versions' = c.versions
    /\ sortedVersions' = c.sortedVersions
    /\ roots' = c.roots
    /\ childrenMap' = c.childrenMap
    /\ positions' = c.positions
    /\ laneNextRow' = c.laneNextRow
    /\ laneUsage' = OwnLaneUsage(c)
    /\ stack' = c.stack
    /\ rootIdx' = c.rootIdx
    /\ layout' = c.layout
    /\ pc' = c.pc
    /\ order' = c.order
    /\ view' = c.view

\* the first component has computed its layout undisturbed; a second one is
\* mounted with a batch of its own and computes its layout, undisturbed too
StartOther ==
    /\ other.phase = "none"
    /\ pc = "done"
    /\ \E len \in 0..OtherIds : \E par \in [1..len -> ParentIds(OtherIds)] :
          Resume(Mounted(Batch(len, par, [i \in 1..len |-> 1])))
    /\ other' = [phase |-> "alone", comp |-> ThisComponent]
    /\ runs' = runs + 1
    /\ UNCHANGED <<firstVersions, prevVersions, firstLayout>>

\* both components are mounted anew with their batches; what each computed
\* undisturbed is kept for comparison
StartBoth ==
    /\ other.phase = "alone"
    /\ pc = "done"
    /\ Resume(Mounted(versions))
    /\ other' = [phase |-> "both", comp |-> Mounted(other.comp.versions),
                 alone |-> layout, otherAlone |-> other.comp.layout]
    /\ UNCHANGED <<runs, firstVersions, prevVersions, firstLayout>>

\* the next steps are those of the other component
Switch ==
    /\ other.phase = "both"
    /\ Resume(other.comp)
    /\ other' = [phase |-> "both", comp |-> ThisComponent,
                 alone |-> other.otherAlone, otherAlone |-> other.alone]
    /\ UNCHANGED <<runs, firstVersions, prevVersions, firstLayout>>

InitConc == InitTied(ConcIds)

NextConc == Next \/ StartOther \/ StartBoth \/ Switch

SpecConc == InitConc /\ [][NextConc]_vars

(* ---------------------------- the input, as the properties read it ----- *)
InputIds == {versions[i].version_id : i \in 1..Len(versions)}

RecordOf(id) == versions[CHOOSE i \in 1..Len(versions) : versions[i].version_id = id]

ParentId(id) == RecordOf(id).parent_version_id

HasParentInBatch(id) == ParentId(id) \in InputIds

RECURSIVE AncestorAt(_, _)
\* the k-th ancestor of id along parent links inside the batch, else NoParent
AncestorAt(id, k) ==
    IF k = 0 THEN id
    ELSE IF HasParentInBatch(id) THEN AncestorAt(ParentId(id), k - 1)
         ELSE NoParent

\* no id of the batch reaches itself along parent links
Acyclic == \A id \in InputIds : AncestorAt(id, Len(versions)) = NoParent

RECURSIVE Depth(_)
\* number of parent links from id up to its root (acyclic batches only)
Depth(id) == IF HasParentInBatch(id) THEN 1 + Depth(ParentId(id)) ELSE 0

\* index of id in the placement order
PlacedAt(id) == CHOOSE i \in 1..Len(order) : order[i] = id

PlacedBefore(e, c) == e \in Range(order) /\ PlacedAt(e) < PlacedAt(c)

\* the children of p among the input records, earliest first: created_at, then
\* position in the input array
ChildIds(p) == {c \in InputIds : ParentId(c) = p}

InputIndex(id) == CHOOSE i \in 1..Len(versions) : versions[i].version_id = id

Earlier(a, b) ==
    \/ RecordOf(a).created_at < RecordOf(b).created_at
    \/ RecordOf(a).created_at = RecordOf(b).created_at /\ InputIndex(a) < InputIndex(b)

IsFirstChild(c) == HasParentInBatch(c) /\ \A d \in ChildIds(ParentId(c)) \ {c} : Earlier(c, d)

IsLaterChild(c) == HasParentInBatch(c) /\ ~IsFirstChild(c)

RootIds == {r \in InputIds : ~HasParentInBatch(r)}

Lane(id) == positions[id].lane
Row(id) == positions[id].row
Placed == DOMAIN positions
Done == pc = "done"

(* ---------------------------- properties ------------------------------- *)
\* C1: at every moment of a layout computation, two distinct placed version
\* ids never hold the same (lane, row): inside one lane all rows differ.
C1_NoSlotShared ==
    \A a \in Placed : \A b \in Placed \ {a} : ~(Lane(a) = Lane(b) /\ Row(a) = Row(b))

\* a finished layout in which a node asked for a taken row and was moved down
C1_Witness ==
    /\ Done
    /\ \E c \in Placed : HasParentInBatch(c) /\ Row(c) > Row(ParentId(c)) + 1

\* C2: for a non-empty batch (unique ids) with an acyclic parent relation the
\* returned positions map has exactly the input ids as keys, and every id was
\* placed once.
C2_ExactlyInputIds ==
    (Done /\ versions # <<>> /\ Acyclic) =>
        /\ layout # Null
        /\ DOMAIN layout.positions = InputIds
        /\ Len(order) = Cardinality(InputIds)
        /\ Range(order) = InputIds

\* a finished acyclic batch of three or more records with a dangling parent
C2_Witness ==
    /\ Done /\ Acyclic /\ Len(versions) >= 3
    /\ \E id \in InputIds : ParentId(id) = Missing
    /\ \E id \in InputIds : HasParentInBatch(id)

\* C3: a placed version whose parent is in the batch lies in a row strictly
\* below (greater than) the row of its parent.
C3_BelowParent ==
    \A c \in Placed : HasParentInBatch(c) =>
        ParentId(c) \in Placed /\ Row(c) > Row(ParentId(c))

\* a finished layout with a grandchild
C3_Witness ==
    /\ Done
    /\ \E c \in Placed : HasParentInBatch(c) /\ HasParentInBatch(ParentId(c))

\* C4: every child other than the first child of its parent is placed in a
\* lane that no node placed earlier in the computation occupies.
C4_LaterChildOpensLane ==
    Acyclic =>
        \A c \in Placed : IsLaterChild(c) =>
            \A e \in Placed : PlacedBefore(e, c) => Lane(e) # Lane(c)

\* C5: the first child of a node is placed in the lane of its parent, and at
\* row parentRow + 1 whenever no node placed before it holds that slot.
C5_FirstChildKeepsLane ==
    \A c \in Placed : IsFirstChild(c) =>
        LET p == ParentId(c)
        IN  /\ p \in Placed
            /\ Lane(c) = Lane(p)
            /\ (~\E e \in Placed : PlacedBefore(e, c) /\ Lane(e) = Lane(p)
                                   /\ Row(e) = Row(p) + 1)
                 => Row(c) = Row(p) + 1

\* a finished layout in which a first child sits under a parent that is
\* itself a later child (a branch lane continued)
C5_Witness ==
    /\ Done
    /\ \E c \in Placed : IsFirstChild(c) /\ IsLaterChild(ParentId(c))
                         /\ Row(c) = Row(ParentId(c)) + 1

\* C6: two distinct children of one parent are never placed in one lane.
C6_SiblingsApart ==
    Acyclic =>
        \A c \in Placed : \A d \in Placed \ {c} :
            (HasParentInBatch(c) /\ ParentId(c) = ParentId(d)) => Lane(c) # Lane(d)

\* C7: the roots get the lanes 0, 1, 2, ... in chronological order (ties in
\* input order), each at row 0, whatever children earlier roots have.
C7_RootLanes ==
    Done =>
        \A r \in RootIds :
            /\ r \in Placed
            /\ Lane(r) = Cardinality({q \in RootIds \ {r} : Earlier(q, r)})
            /\ Row(r) = 0

\* a finished layout with two roots whose earlier root has two children, the
\* second of them in the lane the later root gets
C7_Witness ==
    /\ Done
    /\ \E r \in RootIds : \E q \in RootIds :
        /\ Earlier(q, r)
        /\ Cardinality(ChildIds(q)) = 2
        /\ \E c \in ChildIds(q) : Lane(c) = Lane(r)

\* C10: a linear chain of N versions (one parentless version, every other
\* version the only child of the previous one) lies in lane 0 at rows
\* 0 .. N-1 in chain order.
IsChain ==
    /\ versions # <<>>
    /\ Acyclic
    /\ Cardinality({r \in InputIds : ParentId(r) = NoParent}) = 1
    /\ \A id \in InputIds : ParentId(id) # NoParent => HasParentInBatch(id)
    /\ \A id \in InputIds : Cardinality(ChildIds(id)) <= 1

C10_ChainInLaneZero ==
    (Done /\ IsChain) =>
        /\ Placed = InputIds
        /\ \A id \in InputIds : Lane(id) = 0 /\ Row(id) = Depth(id)

\* a finished chain of three or more versions whose array order is not chain
\* order
C10_Witness ==
    /\ Done /\ IsChain /\ Len(versions) >= 3
    /\ \E id \in InputIds : HasParentInBatch(id) /\ InputIndex(id) < InputIndex(ParentId(id))

\* positions of a layout value
PositionsOf(l) == IF l = Null THEN EmptyMap ELSE l.positions

SameRecords(vs, ws) == Len(vs) = Len(ws) /\ Range(vs) = Range(ws)

IndexIn(vs, r) == CHOOSE i \in 1..Len(vs) : vs[i] = r

\* vs and ws list records of equal created_at in the same relative order
TiesInSameOrder(vs, ws) ==
    \A r \in Range(vs) : \A q \in Range(vs) :
        (r.created_at = q.created_at /\ IndexIn(vs, r) < IndexIn(vs, q))
            => IndexIn(ws, r) < IndexIn(ws, q)

\* C8 as stated: any two orderings of the same records get identical
\* positions, also when records have equal created_at.
C8_AnyOrderSamePositions ==
    (Done /\ runs > 1 /\ SameRecords(versions, firstVersions)) =>
        PositionsOf(layout) = PositionsOf(firstLayout)

\* C8 amended: two orderings of the same records that list the records of
\* equal created_at in the same relative order get identical positions.
C8_SameTieOrderSamePositions ==
    (Done /\ runs > 1 /\ SameRecords(versions, firstVersions)
          /\ TiesInSameOrder(firstVersions, versions)) =>
        PositionsOf(layout) = PositionsOf(firstLayout)

\* a second layout of two records with different created_at, that came
\* newest first at first and oldest first now, in two lanes
C8_Witness ==
    /\ Done /\ runs = 2 /\ Len(versions) >= 2
    /\ versions # firstVersions
    /\ SameRecords(versions, firstVersions)
    /\ TiesInSameOrder(firstVersions, versions)
    /\ \E i \in 1..(Len(versions) - 1) :
          firstVersions[i].created_at > firstVersions[i + 1].created_at
    /\ Cardinality({Lane(id) : id \in Placed}) > 1

\* C9: a layout computed for a batch after other computations took place is
\* the layout the first computation gave for that batch.
C9_SameAsFresh ==
    (Done /\ runs > 1 /\ versions = firstVersions) => layout = firstLayout

\* the third computation ends, on the first batch again, after another
\* non-empty batch was laid out; the first batch has a parent and its child
C9_Witness ==
    /\ Done /\ runs = 3 /\ versions = firstVersions
    /\ layout # Null
    /\ prevVersions # versions /\ prevVersions # <<>>
    /\ \E id \in Placed : Row(id) > 0

\* C11: for a layout with at least one placed node, laneCount is 1 + the
\* greatest lane and rowCount is 1 + the greatest row of the placed nodes, and
\* the summary returns the positions of the walk unchanged.
C11_CountsAreMaxPlusOne ==
    (Done /\ layout # Null /\ Placed # {}) =>
        /\ layout.positions = positions
        /\ \A id \in Placed : Lane(id) < LaneCount(layout) /\ Row(id) < RowCount(layout)
        /\ \E id \in Placed : Lane(id) + 1 = LaneCount(layout)
        /\ \E id \in Placed : Row(id) + 1 = RowCount(layout)

\* a finished layout whose greatest lane and greatest row belong to
\* different nodes, with more lanes than roots
C11_Witness ==
    /\ Done /\ layout # Null
    /\ LaneCount(layout) > Cardinality(RootIds)
    /\ RowCount(layout) >= 3
    /\ ~\E id \in Placed : Lane(id) + 1 = LaneCount(layout) /\ Row(id) + 1 = RowCount(layout)

Returned == pc \in {"done", "shown", "failed"}

C13_AcyclicTerminatesComplete ==
    Acyclic => <>(pc = "done" /\ Placed = InputIds /\ stack = <<>>)

\* a returned layout of an acyclic batch with a branch and a dangling parent
C13_Witness ==
    /\ Done /\ Acyclic /\ Placed = InputIds
    /\ \E id \in InputIds : IsLaterChild(id)
    /\ \E id \in InputIds : ParentId(id) = Missing

\* the records on a parent cycle, and those whose ancestors lead into one
ReachesCycle(id) == AncestorAt(id, Len(versions)) # NoParent

InCycle == {id \in InputIds : ReachesCycle(id)}

\* C14 (as stated): on a batch with unique ids whose parent relation has a
\* cycle, the layout computation recurses without bound and never returns.
C14_CyclicNeverReturns == ~Acyclic => ~Returned

\* C14: on a batch with unique ids whose parent relation has a cycle, the
\* layout computation returns: the call stack never grows beyond the number of
\* records, and the returned positions hold exactly the records that do not
\* lead into a cycle, since no record leading into one is a root or a child of
\* a visited record.
C14_CyclicReturnsPartial ==
    ~Acyclic =>
        /\ [](Len(stack) <= Len(versions))
        /\ <>(pc = "done" /\ stack = <<>> /\ layout # Null
                /\ Placed = InputIds \ InCycle)

\* a returned layout of a batch with a cycle of two records and a placed record
C14_Witness ==
    /\ Done /\ ~Acyclic /\ layout # Null
    /\ DOMAIN layout.positions # {}
    /\ \E id \in InCycle : ParentId(id) # id /\ AncestorAt(id, 2) = id

\* C15: when the parent relation restricted to the batch contains a cycle, the
\* computation fails with a structural-integrity error and produces no layout.
C15_CyclicGivesNoLayout == ~Acyclic => ~(pc = "done" /\ layout # Null)

\* C16: every outcome of the layout computation is a complete layout (a
\* position for every id of the batch) or an error of the computation; the
\* renderer, which reads a position for every version, is never handed a
\* layout in which some input id has no position.
C16_RendererGetsCompleteLayout ==
    (pc \in {"shown", "failed"} /\ layout # Null) =>
        /\ DOMAIN layout.positions = InputIds
        /\ view.kind = "graph"

HasDuplicateIds ==
    \E i \in 1..Len(versions) : \E j \in 1..Len(versions) :
        i # j /\ versions[i].version_id = versions[j].version_id

\* C17: a batch in which two records carry the same id is rejected: no layout
\* is returned for it, and no id is placed a second time, which would
\* overwrite its position.
C17_DuplicatesRejected ==
    HasDuplicateIds =>
        /\ ~(pc = "done" /\ layout # Null)
        /\ \A i \in 1..Len(order) : \A j \in 1..Len(order) :
              order[i] = order[j] => i = j

\* sortedVersions has been computed for the present batch
Normalized == pc # "render"

Unnumbered(v) == [v EXCEPT !.version_number = Absent]

\* C18: the normalizer outputs a permutation of the input records, sorted
\* ascending by created_at, in which records of equal created_at keep their
\* relative input order; the input array itself is left as it was.
C18_StableSortedPermutation ==
    Normalized =>
        /\ versions = firstVersions
        /\ Len(sortedVersions) = Len(versions)
        /\ {sortedVersions[i].version_id : i \in 1..Len(sortedVersions)} = InputIds
        /\ \A i \in 1..Len(sortedVersions) : Unnumbered(sortedVersions[i]) \in Range(versions)
        /\ \A i \in 1..Len(sortedVersions) : \A j \in 1..Len(sortedVersions) :
              i < j =>
                /\ sortedVersions[i].created_at <= sortedVersions[j].created_at
                /\ sortedVersions[i].created_at = sortedVersions[j].created_at
                      => InputIndex(sortedVersions[i].version_id)
                            < InputIndex(sortedVersions[j].version_id)

\* a batch that arrived out of order, with two records of one created_at
\* around an earlier one, has been normalized
C18_Witness ==
    /\ Normalized
    /\ Len(versions) = 3
    /\ versions[1].created_at = versions[3].created_at
    /\ versions[2].created_at < versions[1].created_at
    /\ sortedVersions[1].version_id = versions[2].version_id

\* C19: after normalization every record has a version number: a record that
\* came without one gets 1 + its index in the sorted sequence, and a record
\* that came with one, 0 included, keeps it.
C19_OrdinalKeptOrAssigned ==
    Normalized =>
        \A i \in 1..Len(sortedVersions) :
            LET given == RecordOf(sortedVersions[i].version_id).version_number
            IN  sortedVersions[i].version_number = IF given = Absent THEN i ELSE given

\* C20: the root list is exactly the records whose parent is absent or names
\* no id of the batch, in sorted order; a record with a dangling parent is
\* placed at row 0 and is no error, and a batch of one such record has it at
\* lane 0, row 0.
C20_DanglingParentIsRoot ==
    /\ Normalized => roots = SelectSeq(sortedVersions, LAMBDA v : v.version_id \in RootIds)
    /\ Returned =>
          \A id \in InputIds :
              ParentId(id) = Missing =>
                /\ layout # Null
                /\ id \in DOMAIN layout.positions
                /\ layout.positions[id].row = 0
                /\ Len(versions) = 1 => layout.positions[id].lane = 0
                /\ Acyclic => pc # "failed"
                /\ (Acyclic /\ pc = "shown") => view.kind = "graph"

\* a batch of one record with a dangling parent has been drawn
C20_Witness ==
    /\ pc = "shown" /\ view.kind = "graph"
    /\ Len(versions) = 1
    /\ versions[1].parent_version_id = Missing
    /\ positions[versions[1].version_id].lane = 0
    /\ positions[versions[1].version_id].row = 0

\* both components are computing, step by step in any order
Interleaved == other.phase = "both"

\* C21: two layout computations on batches of their own, interleaved step by
\* step in any order, each return the layout they return when run alone.
C21_InterleavedSameAsAlone ==
    Interleaved =>
        /\ pc \in {"done", "shown", "failed"} => layout = other.alone
        /\ other.comp.pc \in {"done", "shown", "failed"}
              => other.comp.layout = other.otherAlone

\* one computation has returned its layout while the other, begun before,
\* has placed some of its records and not yet all
C21_Witness ==
    /\ Interleaved
    /\ pc = "done" /\ layout # Null /\ layout = other.alone
    /\ other.comp.pc = "layout"
    /\ other.comp.order # <<>>
    /\ Len(other.comp.order) < Len(other.comp.versions)
    /\ Len(order) = Len(versions)

\* the centre of the node drawn for a placed id
CentreX(id) == Lane(id) * 80 + 40
CentreY(id) == Row(id) * 80 + 40

\* C22: the renderer maps every placed node to x = lane * 80, y = row * 80
\* and draws exactly one edge for each version whose parent is placed, none
\* for roots and dangling parents: a straight segment from parent to child
\* when both share a lane, otherwise one quadratic curve whose control point
\* has the child's x and the parent's y.
C22_NodesAndEdgesDrawn ==
    (pc = "shown" /\ view.kind = "graph") =>
        /\ \A id \in Placed : /\ positions[id].x = Lane(id) * 80
                              /\ positions[id].y = Row(id) * 80
        /\ \A i \in 1..Len(view.nodes) :
              /\ view.nodes[i].id = sortedVersions[i].version_id
              /\ view.nodes[i].left = Lane(view.nodes[i].id) * 80 + 24
              /\ view.nodes[i].top = Row(view.nodes[i].id) * 80 + 24
        /\ {view.edges[i].id : i \in 1..Len(view.edges)}
              = {id \in InputIds : ParentId(id) \in Placed}
        /\ Len(view.edges) = Cardinality({id \in InputIds : ParentId(id) \in Placed})
        /\ \A i \in 1..Len(view.edges) :
              LET e == view.edges[i]
                  c == e.id
                  p == ParentId(c)
              IN  /\ e.x1 = CentreX(p) /\ e.y1 = CentreY(p)
                  /\ e.x2 = CentreX(c) /\ e.y2 = CentreY(c)
                  /\ IF Lane(p) = Lane(c)
                     THEN e.kind = "line"
                     ELSE e.kind = "path" /\ e.cpX = CentreX(c) /\ e.cpY = CentreY(p)

\* a drawn graph with a straight edge, a curved edge and a root whose parent
\* is in no batch
C22_Witness ==
    /\ pc = "shown" /\ view.kind = "graph"
    /\ \E i \in 1..Len(view.edges) : view.edges[i].kind = "line"
    /\ \E i \in 1..Len(view.edges) : view.edges[i].kind = "path"
    /\ \E id \in InputIds : ParentId(id) = Missing

\* C23: when a root is placed, its lane is the next unused one: no node placed
\* earlier in the computation, branch children of earlier roots included,
\* occupies that lane.
C23_RootLaneUnused ==
    \A r \in RootIds \cap Placed : \A e \in Placed :
        PlacedBefore(e, r) => Lane(e) # Lane(r)

\* the call stack before and after a step that places a node
Placing == pc = "layout" /\ pc' = "layout" /\ Len(order') = Len(order) + 1

RequestedLane ==
    IF stack = <<>> THEN rootIdx
    ELSE IF Top.idx = 0 THEN Top.lane ELSE Cardinality(DOMAIN laneNextRow)

RequestedRow == IF stack = <<>> THEN 0 ELSE Top.row + 1

\* C24: placing a node at a requested (lane, row) gives it the least row
\* r >= the requested row that was not occupied in that lane, in that very
\* lane, and records r as occupied there; the occupancy of every other lane
\* stays as it was.
C24_PlacedAtLeastFreeRow ==
    [][Placing =>
        LET id == order'[Len(order')]
            r == positions'[id].row
        IN  /\ positions'[id].lane = RequestedLane
            /\ r >= RequestedRow
            /\ ~RowUsed(laneUsage, RequestedLane, r)
            /\ \A q \in RequestedRow..(r - 1) : RowUsed(laneUsage, RequestedLane, q)
            /\ RowUsed(laneUsage', RequestedLane, r)
            /\ DOMAIN laneUsage' = DOMAIN laneUsage \cup {RequestedLane}
            /\ \A l \in DOMAIN laneUsage \ {RequestedLane} : laneUsage'[l] = laneUsage[l]
            /\ \A q \in 0..r : q # r =>
                  (RowUsed(laneUsage', RequestedLane, q) <=> RowUsed(laneUsage, RequestedLane, q))
    ]_vars

\* a node has just been placed below the row it asked for, in a lane that
\* is not the only one in use
C24_Witness ==
    /\ pc = "layout"
    /\ Len(stack) >= 2
    /\ Top.row > stack[Len(stack) - 1].row + 1
    /\ Cardinality(DOMAIN laneUsage) >= 2

\* childrenMap has been built for the present batch
MapBuilt == pc # "render" /\ sortedVersions # <<>>

\* C25: the adjacency map lists for each parent id its children in ascending
\* created_at order, ties in input order; every record with a non-empty
\* parent id is in exactly one child list, once; so the child that is handed
\* the lane of its parent, the first of the list, is the earliest-created one.
C25_ChildListsInCreationOrder ==
    MapBuilt =>
        /\ DOMAIN childrenMap = {ParentId(id) : id \in InputIds} \ {NoParent}
        /\ \A p \in DOMAIN childrenMap :
              /\ Range(childrenMap[p]) = ChildIds(p)
              /\ Len(childrenMap[p]) = Cardinality(ChildIds(p))
              /\ \A i \in 1..Len(childrenMap[p]) : \A j \in 1..Len(childrenMap[p]) :
                    i < j => Earlier(childrenMap[p][i], childrenMap[p][j])
              /\ \A c \in ChildIds(p) \ {childrenMap[p][1]} : Earlier(childrenMap[p][1], c)
              /\ (p \in Placed /\ childrenMap[p][1] \in Placed)
                    => Lane(childrenMap[p][1]) = Lane(p)

\* a finished layout in which the earliest child of some parent comes later
\* in the input array than its sibling
C25_Witness ==
    /\ Done /\ MapBuilt
    /\ \E p \in DOMAIN childrenMap :
          /\ Len(childrenMap[p]) >= 2
          /\ p \in Placed
          /\ InputIndex(childrenMap[p][1]) > InputIndex(childrenMap[p][2])
          /\ Lane(childrenMap[p][1]) = Lane(p)

\* the non-first children among the first i placed nodes
LaterChildrenUpTo(i) == {k \in 1..i : IsLaterChild(order[k])}

\* C26: branch lanes come from one counter in allocation order: the j-th
\* non-first child placed is given lane j, however many roots there are; so
\* for a non-empty acyclic batch the lanes in use are exactly 0..max and
\* laneCount = max(number of roots, 1 + number of non-first children).
C26_BranchLanesInAllocationOrder ==
    Acyclic =>
        /\ \A i \in 1..Len(order) :
              IsLaterChild(order[i]) => Lane(order[i]) = Cardinality(LaterChildrenUpTo(i))
        /\ (Done /\ versions # <<>>) =>
              /\ {Lane(id) : id \in Placed} = 0..layout.maxLane
              /\ LaneCount(layout) =
                    Max({Cardinality(RootIds),
                         1 + Cardinality({c \in InputIds : IsLaterChild(c)})})

\* a finished layout with more roots than branch lanes, and one with a branch
\* lane beyond the lanes of the roots
C26_Witness ==
    /\ Done /\ Acyclic
    /\ \E c \in InputIds : IsLaterChild(c)
    /\ Cardinality(RootIds) >= 2

\* the parent links of id lead to a record that is a root
ReachesRoot(id) == \E k \in 0..Len(versions) : AncestorAt(id, k) \in RootIds

\* C27: for every batch with unique ids, with a parent cycle or without, the
\* layout computation returns, and the records that have a position are then
\* exactly those whose parent links lead to a root; records on a parent cycle
\* or hanging off one have none.
C27_ReturnsWithRootedRecords ==
    <>(/\ pc = "done" /\ stack = <<>>
       /\ Placed = {id \in InputIds : ReachesRoot(id)}
       /\ Placed \cap InCycle = {})

\* a returned layout of a batch with a placed root and a record that hangs
\* off a parent cycle without being on it
C27_Witness ==
    /\ Done /\ Placed # {}
    /\ \E id \in InCycle : \A k \in 1..Len(versions) : AncestorAt(id, k) # id

\* id is the first node placed in its lane
OpensLane(id) == \A e \in Placed : PlacedBefore(e, id) => Lane(e) # Lane(id)

\* C28: for an acyclic batch with unique ids and exactly one root the row
\* bump never fires: the row of every node is its depth below the root, one
\* more than the row of its parent; each lane holds a single chain of a node,
\* its first child, the first child of that, ...; and every non-first child
\* opens a lane that no earlier node uses.
C28_SingleRootNeverBumps ==
    (Acyclic /\ Cardinality(RootIds) = 1) =>
        \A c \in Placed :
            /\ Row(c) = Depth(c)
            /\ HasParentInBatch(c) => Row(c) = Row(ParentId(c)) + 1
            /\ IsLaterChild(c) => OpensLane(c)
            /\ IsFirstChild(c) => Lane(c) = Lane(ParentId(c))
            /\ ~OpensLane(c) => /\ IsFirstChild(c)
                                /\ Lane(ParentId(c)) = Lane(c)
                                /\ Row(ParentId(c)) = Row(c) - 1

\* a finished layout of one root with two branch lanes, one of them holding
\* a chain of two nodes
C28_Witness ==
    /\ Done /\ Acyclic /\ Cardinality(RootIds) = 1
    /\ Placed = InputIds
    /\ \E c \in InputIds : IsLaterChild(c) /\ \E d \in InputIds : ParentId(d) = c
    /\ \E c \in InputIds : Depth(c) >= 2

\* id, or one of its ancestors, was placed below the row it asked for
RECURSIVE BumpedAbove(_)
BumpedAbove(id) ==
    /\ HasParentInBatch(id)
    /\ \/ Row(id) > Row(ParentId(id)) + 1
       \/ BumpedAbove(ParentId(id))

\* C29: for every acyclic batch with unique ids exactly the roots are at row
\* 0 and the row of every node is at least its depth below its root; it is
\* larger only for a node that found its requested slot occupied in its
\* lane, and for the descendants of such a node.
C29_RowAtLeastDepth ==
    Acyclic =>
        \A c \in Placed :
            /\ Row(c) = 0 <=> c \in RootIds
            /\ Row(c) >= Depth(c)
            /\ Row(c) > Depth(c) <=> BumpedAbove(c)

\* a finished layout in which a node was moved down and its child sits below
\* its depth as well
C29_Witness ==
    /\ Done /\ Acyclic /\ Placed = InputIds
    /\ \E c \in InputIds :
          /\ HasParentInBatch(c)
          /\ Row(c) > Row(ParentId(c)) + 1
          /\ \E d \in InputIds : ParentId(d) = c /\ Row(d) > Depth(d)

====
